---------------------------- MODULE Spec2Model ----------------------------
(***************************************************************************)
(* A model of musictheorpy/scales.py: the Scale class, its static          *)
(* registries and the module-level helper functions.                       *)
(*                                                                         *)
(* Python strings are sequences of one-character strings, so that          *)
(* str.split, the substring test ('MINOR' in quality) and concatenation    *)
(* are computed and not assumed.  Python list objects live in `heap` and   *)
(* are held by reference; tuples and strings are values.  A function that  *)
(* may raise returns [raised |-> <exception name or NoError>, value |-> v].*)
(***************************************************************************)
EXTENDS Integers, Sequences, FiniteSets, TLC

VARIABLES
    input_tonic,   \* the tonic token every scale name of this behaviour starts with
    scales,        \* the Scale objects constructed so far and still referenced
    heap,          \* contents of the list objects of KEY_SIGNATURES, by reference
    out            \* the outcome of the last operation

vars == <<input_tonic, scales, heap, out>>

----------------------------------------------------------------------------
(* Bounds *)

MaxScales == 2     \* Scale objects alive at once
MaxAppend == 1     \* entries a client appends to one exposed list

----------------------------------------------------------------------------
(* Strings *)

Chars ==
    ("" :> <<>>) @@
    ("A" :> <<"A">>) @@ ("B" :> <<"B">>) @@ ("C" :> <<"C">>) @@ ("D" :> <<"D">>) @@
    ("E" :> <<"E">>) @@ ("F" :> <<"F">>) @@ ("G" :> <<"G">>) @@ ("H" :> <<"H">>) @@
    ("A#" :> <<"A", "#">>) @@ ("B#" :> <<"B", "#">>) @@ ("C#" :> <<"C", "#">>) @@
    ("D#" :> <<"D", "#">>) @@ ("E#" :> <<"E", "#">>) @@ ("F#" :> <<"F", "#">>) @@
    ("G#" :> <<"G", "#">>) @@
    ("Ab" :> <<"A", "b">>) @@ ("Bb" :> <<"B", "b">>) @@ ("Cb" :> <<"C", "b">>) @@
    ("Db" :> <<"D", "b">>) @@ ("Eb" :> <<"E", "b">>) @@ ("Fb" :> <<"F", "b">>) @@
    ("Gb" :> <<"G", "b">>) @@
    ("c" :> <<"c">>) @@
    ("MAJOR" :> <<"M", "A", "J", "O", "R">>) @@
    ("MINOR" :> <<"M", "I", "N", "O", "R">>) @@
    ("NATURAL" :> <<"N", "A", "T", "U", "R", "A", "L">>) @@
    ("HARMONIC" :> <<"H", "A", "R", "M", "O", "N", "I", "C">>) @@
    ("MELODIC" :> <<"M", "E", "L", "O", "D", "I", "C">>) @@
    ("LYDIAN" :> <<"L", "Y", "D", "I", "A", "N">>) @@
    ("minor" :> <<"m", "i", "n", "o", "r">>)

RECURSIVE Join(_)
Join(words) ==
    IF Len(words) = 0 THEN <<>>
    ELSE IF Len(words) = 1 THEN Chars[words[1]]
    ELSE Chars[words[1]] \o <<" ">> \o Join(Tail(words))

\* The Python literal made of `words` separated by single spaces.
Lit(words) == Join(words)

\* sub in s, for strings
Contains(sub, s) ==
    \E i \in 1..(Len(s) - Len(sub) + 1) : SubSeq(s, i, i + Len(sub) - 1) = sub

\* x in xs, for a list
In(x, xs) == \E i \in 1..Len(xs) : xs[i] = x

\* s.split(' ', 1)
Split1(s) ==
    IF In(" ", s)
    THEN LET i == CHOOSE k \in 1..Len(s) :
                      s[k] = " " /\ \A j \in 1..(k - 1) : s[j] # " "
         IN  <<SubSeq(s, 1, i - 1), SubSeq(s, i + 1, Len(s))>>
    ELSE <<s>>

NoError == "NoError"
Ok(v) == [raised |-> NoError, value |-> v]
Raise(e) == [raised |-> e, value |-> <<>>]

\* d[k] for a dict
Lookup(d, k) == IF k \in DOMAIN d THEN Ok(d[k]) ELSE Raise("KeyError")


\* The list literal whose entries are `words`.
ListOf(words) == [i \in 1..Len(words) |-> Chars[words[i]]]

\* xs[:k]
SliceTo(xs, k) == SubSeq(xs, 1, IF k < Len(xs) THEN k ELSE Len(xs))

----------------------------------------------------------------------------
(* Static registries of scales.py *)

\* Faulty variant: G# slipped into the major list.
VALID_SCALE_NAMES_with_G_sharp_major ==
    [MAJOR |-> ListOf(<<"A", "B", "C", "D", "E", "F", "G",
                        "C#", "F#", "G#",
                        "Ab", "Bb", "Cb", "Db", "Eb", "Gb">>),
     MINOR |-> ListOf(<<"A", "B", "C", "D", "E", "F", "G",
                        "A#", "D#", "G#", "C#", "F#",
                        "Ab", "Eb", "Bb">>)]

VALID_SCALE_NAMES ==
    [MAJOR |-> ListOf(<<"A", "B", "C", "D", "E", "F", "G",
                        "C#", "F#",
                        "Ab", "Bb", "Cb", "Db", "Eb", "Gb">>),
     MINOR |-> ListOf(<<"A", "B", "C", "D", "E", "F", "G",
                        "A#", "D#", "G#", "C#", "F#",
                        "Ab", "Eb", "Bb">>)]

SHARPS == ListOf(<<"F#", "C#", "G#", "D#", "A#", "E#", "B#">>)
FLATS == ListOf(<<"Bb", "Eb", "Ab", "Db", "Gb", "Cb", "Fb">>)

\* Faulty variant: E MINOR given the number of B MINOR.
KEY_SIGNATURE_NUMBERS_E_minor_slip ==
    (Lit(<<"C", "MAJOR">>) :> 0) @@ (Lit(<<"G", "MAJOR">>) :> 1) @@
    (Lit(<<"D", "MAJOR">>) :> 2) @@ (Lit(<<"A", "MAJOR">>) :> 3) @@
    (Lit(<<"E", "MAJOR">>) :> 4) @@ (Lit(<<"B", "MAJOR">>) :> 5) @@
    (Lit(<<"F#", "MAJOR">>) :> 6) @@ (Lit(<<"C#", "MAJOR">>) :> 7) @@
    (Lit(<<"F", "MAJOR">>) :> -1) @@ (Lit(<<"Bb", "MAJOR">>) :> -2) @@
    (Lit(<<"Eb", "MAJOR">>) :> -3) @@ (Lit(<<"Ab", "MAJOR">>) :> -4) @@
    (Lit(<<"Db", "MAJOR">>) :> -5) @@ (Lit(<<"Gb", "MAJOR">>) :> -6) @@
    (Lit(<<"Cb", "MAJOR">>) :> -7) @@
    (Lit(<<"A", "MINOR">>) :> 0) @@ (Lit(<<"E", "MINOR">>) :> 2) @@
    (Lit(<<"B", "MINOR">>) :> 2) @@ (Lit(<<"F#", "MINOR">>) :> 3) @@
    (Lit(<<"C#", "MINOR">>) :> 4) @@ (Lit(<<"G#", "MINOR">>) :> 5) @@
    (Lit(<<"D#", "MINOR">>) :> 6) @@ (Lit(<<"A#", "MINOR">>) :> 7) @@
    (Lit(<<"D", "MINOR">>) :> -1) @@ (Lit(<<"G", "MINOR">>) :> -2) @@
    (Lit(<<"C", "MINOR">>) :> -3) @@ (Lit(<<"F", "MINOR">>) :> -4) @@
    (Lit(<<"Bb", "MINOR">>) :> -5) @@ (Lit(<<"Eb", "MINOR">>) :> -6) @@
    (Lit(<<"Ab", "MINOR">>) :> -7)

KEY_SIGNATURE_NUMBERS ==
    (Lit(<<"C", "MAJOR">>) :> 0) @@ (Lit(<<"G", "MAJOR">>) :> 1) @@
    (Lit(<<"D", "MAJOR">>) :> 2) @@ (Lit(<<"A", "MAJOR">>) :> 3) @@
    (Lit(<<"E", "MAJOR">>) :> 4) @@ (Lit(<<"B", "MAJOR">>) :> 5) @@
    (Lit(<<"F#", "MAJOR">>) :> 6) @@ (Lit(<<"C#", "MAJOR">>) :> 7) @@
    (Lit(<<"F", "MAJOR">>) :> -1) @@ (Lit(<<"Bb", "MAJOR">>) :> -2) @@
    (Lit(<<"Eb", "MAJOR">>) :> -3) @@ (Lit(<<"Ab", "MAJOR">>) :> -4) @@
    (Lit(<<"Db", "MAJOR">>) :> -5) @@ (Lit(<<"Gb", "MAJOR">>) :> -6) @@
    (Lit(<<"Cb", "MAJOR">>) :> -7) @@
    (Lit(<<"A", "MINOR">>) :> 0) @@ (Lit(<<"E", "MINOR">>) :> 1) @@
    (Lit(<<"B", "MINOR">>) :> 2) @@ (Lit(<<"F#", "MINOR">>) :> 3) @@
    (Lit(<<"C#", "MINOR">>) :> 4) @@ (Lit(<<"G#", "MINOR">>) :> 5) @@
    (Lit(<<"D#", "MINOR">>) :> 6) @@ (Lit(<<"A#", "MINOR">>) :> 7) @@
    (Lit(<<"D", "MINOR">>) :> -1) @@ (Lit(<<"G", "MINOR">>) :> -2) @@
    (Lit(<<"C", "MINOR">>) :> -3) @@ (Lit(<<"F", "MINOR">>) :> -4) @@
    (Lit(<<"Bb", "MINOR">>) :> -5) @@ (Lit(<<"Eb", "MINOR">>) :> -6) @@
    (Lit(<<"Ab", "MINOR">>) :> -7)

\* KEY_SIGNATURES maps a signature number to a list object.  Every slice
\* SHARPS[:n], FLATS[:n] and the literal [] is a list object of its own, named
\* here by the key it is stored under.
KeySignatureRef(n) == <<"KEY_SIGNATURES", n>>

KEY_SIGNATURES ==
    (0 :> KeySignatureRef(0)) @@
    [n \in 1..7 |-> KeySignatureRef(n)] @@
    [n \in -7..-1 |-> KeySignatureRef(n)]

\* Faulty variant: the entry for 0 written as SHARPS[:1].
KEY_SIGNATURES_contents_zero_slip ==
    (KeySignatureRef(0) :> SliceTo(SHARPS, 1)) @@
    [r \in {KeySignatureRef(n) : n \in 1..7} |-> SliceTo(SHARPS, r[2])] @@
    [r \in {KeySignatureRef(n) : n \in -7..-1} |-> SliceTo(FLATS, -r[2])]

\* Faulty variant: the negative entries sliced from SHARPS.
KEY_SIGNATURES_contents_flats_from_sharps ==
    (KeySignatureRef(0) :> <<>>) @@
    [r \in {KeySignatureRef(n) : n \in 1..7} |-> SliceTo(SHARPS, r[2])] @@
    [r \in {KeySignatureRef(n) : n \in -7..-1} |-> SliceTo(SHARPS, -r[2])]

\* The contents of those list objects once the module is imported.
KEY_SIGNATURES_contents ==
    (KeySignatureRef(0) :> <<>>) @@
    [r \in {KeySignatureRef(n) : n \in 1..7} |-> SliceTo(SHARPS, r[2])] @@
    [r \in {KeySignatureRef(n) : n \in -7..-1} |-> SliceTo(FLATS, -r[2])]

----------------------------------------------------------------------------
(* Collaborators: musictheorpy.interval_utils and musictheorpy.notes *)

\* An interval is <<diatonic steps above the tonic, semitones above the tonic>>.
SCALE_INTERVALS ==
    (Lit(<<"MAJOR">>) :>
        <<<<0, 0>>, <<1, 2>>, <<2, 4>>, <<3, 5>>, <<4, 7>>, <<5, 9>>, <<6, 11>>>>) @@
    (Lit(<<"NATURAL", "MINOR">>) :>
        <<<<0, 0>>, <<1, 2>>, <<2, 3>>, <<3, 5>>, <<4, 7>>, <<5, 8>>, <<6, 10>>>>) @@
    (Lit(<<"HARMONIC", "MINOR">>) :>
        <<<<0, 0>>, <<1, 2>>, <<2, 3>>, <<3, 5>>, <<4, 7>>, <<5, 8>>, <<6, 11>>>>) @@
    (Lit(<<"MELODIC", "MINOR">>) :>
        <<<<0, 0>>, <<1, 2>>, <<2, 3>>, <<3, 5>>, <<4, 7>>, <<5, 9>>, <<6, 11>>>>)

LETTERS == <<"C", "D", "E", "F", "G", "A", "B">>
LETTER_SEMITONES == <<0, 2, 4, 5, 7, 9, 11>>

LetterIndex(l) == CHOOSE i \in 1..7 : LETTERS[i] = l

AccidentalOffset(acc) ==
    IF acc = <<"#">> THEN 1 ELSE IF acc = <<"b">> THEN -1 ELSE 0

AccidentalChars(k) ==
    CASE k = 2 -> <<"#", "#">>
      [] k = 1 -> <<"#">>
      [] k = 0 -> <<>>
      [] k = -1 -> <<"b">>
      [] k = -2 -> <<"b", "b">>

\* The note `interval` above `tonic`, spelled on the letter that many steps up.
SpelledNote(tonic, interval) ==
    LET from == LetterIndex(tonic[1])
        to == ((from - 1 + interval[1]) % 7) + 1
        pitch == LETTER_SEMITONES[from] + AccidentalOffset(Tail(tonic)) + interval[2]
        offset == ((pitch - LETTER_SEMITONES[to] + 6) % 12) - 6
    IN  <<LETTERS[to]>> \o AccidentalChars(offset)

ScaleIntervals == UNION {{ivs[i] : i \in 1..Len(ivs)} :
                           ivs \in {SCALE_INTERVALS[q] : q \in DOMAIN SCALE_INTERVALS}}

TableTonics ==
    {VALID_SCALE_NAMES.MAJOR[i] : i \in 1..Len(VALID_SCALE_NAMES.MAJOR)} \cup
    {VALID_SCALE_NAMES.MINOR[i] : i \in 1..Len(VALID_SCALE_NAMES.MINOR)}

INTERVAL_NOTE_PAIRS ==
    [tonic \in TableTonics |-> [interval \in ScaleIntervals |-> SpelledNote(tonic, interval)]]

Note(name) == [qualified_name |-> name]

----------------------------------------------------------------------------
(* Module-level functions of scales.py *)

unpack_scale_name(scale) ==
    LET split_scale == Split1(scale)
    IN  IF Len(split_scale) < 2 THEN Raise("IndexError")
        ELSE Ok([TONIC |-> split_scale[1], QUALITY |-> split_scale[2]])

\* Faulty variant: the quality is not consulted, the major list is always used.
validate_tonic_major_only(unpacked_scale_name) ==
    IF ~In(unpacked_scale_name.TONIC, VALID_SCALE_NAMES.MAJOR)
    THEN Raise("InvalidTonicError")
    ELSE Ok(<<>>)

\* Faulty variant: the check is made and its result dropped.
validate_tonic_never_raises(unpacked_scale_name) == Ok(<<>>)

validate_tonic(unpacked_scale_name) ==
    LET valid_tonics == IF Contains(Chars["MINOR"], unpacked_scale_name.QUALITY)
                        THEN VALID_SCALE_NAMES.MINOR
                        ELSE VALID_SCALE_NAMES.MAJOR
    IN  IF ~In(unpacked_scale_name.TONIC, valid_tonics)
        THEN Raise("InvalidTonicError")
        ELSE Ok(<<>>)

build_scale(tonic, quality) ==
    LET scale_intervals == Lookup(SCALE_INTERVALS, quality)
        by_interval == Lookup(INTERVAL_NOTE_PAIRS, tonic)
    IN  IF scale_intervals.raised # NoError THEN Raise(scale_intervals.raised)
        ELSE IF Len(scale_intervals.value) = 0 THEN Ok(<<>>)
        ELSE IF by_interval.raised # NoError THEN Raise(by_interval.raised)
        ELSE IF \E i \in 1..Len(scale_intervals.value) :
                    scale_intervals.value[i] \notin DOMAIN by_interval.value
        THEN Raise("KeyError")
        ELSE Ok([i \in 1..Len(scale_intervals.value) |->
                    Note(by_interval.value[scale_intervals.value[i]])])

\* Faulty variant: quality == 'NATURAL MINOR' in place of 'MINOR' in quality.
fetch_key_signature_natural_only(tonic, quality) ==
    LET qualified_tonic == tonic \o (IF quality = Lit(<<"NATURAL", "MINOR">>)
                                     THEN <<" ">> \o Chars["MINOR"]
                                     ELSE <<" ">> \o Chars["MAJOR"])
        key_signature_number == Lookup(KEY_SIGNATURE_NUMBERS, qualified_tonic)
    IN  IF key_signature_number.raised # NoError
        THEN Raise(key_signature_number.raised)
        ELSE Lookup(KEY_SIGNATURES, key_signature_number.value)

fetch_key_signature(tonic, quality) ==
    LET qualified_tonic == tonic \o (IF Contains(Chars["MINOR"], quality)
                                     THEN <<" ">> \o Chars["MINOR"]
                                     ELSE <<" ">> \o Chars["MAJOR"])
        key_signature_number == Lookup(KEY_SIGNATURE_NUMBERS, qualified_tonic)
    IN  IF key_signature_number.raised # NoError
        THEN Raise(key_signature_number.raised)
        ELSE Lookup(KEY_SIGNATURES, key_signature_number.value)

----------------------------------------------------------------------------
(* class Scale.  An object is the function from the names of the attributes  *)
(* assigned so far to their values.                                          *)

NoAttributes == <<>>

\* Scale.__init__: the exception it ends with (or NoError) and the attributes
\* of self at that point.
Scale__init__(scale_name) ==
    LET unpacked_scale_name == unpack_scale_name(scale_name)
    IN  IF unpacked_scale_name.raised # NoError
        THEN [raised |-> unpacked_scale_name.raised, self |-> NoAttributes]
        ELSE
        LET checked == validate_tonic(unpacked_scale_name.value)
        IN  IF checked.raised # NoError
            THEN [raised |-> checked.raised, self |-> NoAttributes]
            ELSE
            LET self1 == ("_tonic" :> unpacked_scale_name.value.TONIC)
                self2 == self1 @@ ("_quality" :> unpacked_scale_name.value.QUALITY)
                notes == build_scale(self2["_tonic"], self2["_quality"])
            IN  IF notes.raised # NoError
                THEN [raised |-> notes.raised, self |-> self2]
                ELSE
                LET self3 == self2 @@ ("_notes" :> notes.value)
                    key_signature == fetch_key_signature(self3["_tonic"], self3["_quality"])
                IN  IF key_signature.raised # NoError
                    THEN [raised |-> key_signature.raised, self |-> self3]
                    ELSE [raised |-> NoError,
                          self |-> self3 @@ ("key_signature" :> key_signature.value)]

degree_names ==
    [TONIC |-> 0, SUPERTONIC |-> 1, MEDIANT |-> 2, SUBDOMINANT |-> 3,
     DOMINANT |-> 4, SUBMEDIANT |-> 5] @@ ("LEADING TONE" :> 6)

\* Faulty variant: the KeyError of an unknown degree name is not caught.
Scale__getitem__uncaught(self, degree) ==
    IF self["_quality"] # Chars["MAJOR"] /\ ~Contains(Chars["MINOR"], self["_quality"])
    THEN Raise("InvalidDegreeError")
    ELSE LET degree_number == Lookup(degree_names, degree)
         IN  IF degree_number.raised = "KeyError" THEN Raise("KeyError")
             ELSE Ok(self["_notes"][degree_number.value + 1])

\* Degree names are dictionary keys only: they are compared, never taken apart.
Scale__getitem__(self, degree) ==
    IF self["_quality"] # Chars["MAJOR"] /\ ~Contains(Chars["MINOR"], self["_quality"])
    THEN Raise("InvalidDegreeError")
    ELSE LET degree_number == Lookup(degree_names, degree)
         IN  IF degree_number.raised = "KeyError" THEN Raise("InvalidDegreeError")
             ELSE IF degree_number.value + 1 \in 1..Len(self["_notes"])
             THEN Ok(self["_notes"][degree_number.value + 1])
             ELSE Raise("IndexError")

Scale__contains__(self, note) == Ok(In(note, self["_notes"]))

\* Faulty variant: the names in descending order.
Scale_descend(self) ==
    Ok([i \in 1..Len(self["_notes"]) |->
           self["_notes"][Len(self["_notes"]) + 1 - i].qualified_name])

Scale_ascend(self) ==
    Ok([i \in 1..Len(self["_notes"]) |-> self["_notes"][i].qualified_name])

----------------------------------------------------------------------------
(* Inputs *)

\* Tonic tokens: every letter A..G bare, sharp and flat, and three that are no
\* note name at all.
TonicTokens ==
    {Chars[w] : w \in {"A", "B", "C", "D", "E", "F", "G",
                       "A#", "B#", "C#", "D#", "E#", "F#", "G#",
                       "Ab", "Bb", "Cb", "Db", "Eb", "Fb", "Gb",
                       "H", "c", ""}}

\* What follows the tonic token in a scale name: the four documented
\* qualities, three the interval table does not have, and nothing at all.
NameTails ==
    {<<" ">> \o Lit(<<"MAJOR">>),
     <<" ">> \o Lit(<<"NATURAL", "MINOR">>),
     <<" ">> \o Lit(<<"HARMONIC", "MINOR">>),
     <<" ">> \o Lit(<<"MELODIC", "MINOR">>),
     <<" ">> \o Lit(<<"MINOR">>),
     <<" ">> \o Lit(<<"LYDIAN">>),
     <<" ">> \o Lit(<<"MELODIC", "minor">>),
     <<>>}

DegreeArguments ==
    {"TONIC", "SUPERTONIC", "MEDIANT", "SUBDOMINANT", "DOMINANT", "SUBMEDIANT",
     "LEADING TONE", "tonic", "NONSENSE"}

NoteArguments == {Note(Chars[w]) : w \in {"C", "E", "F#", "Bb"}}

AppendArguments == {Chars["H"]}

----------------------------------------------------------------------------
(* The state machine *)

NoOutcome == [op |-> "import", self |-> 0, arg |-> <<>>, raised |-> NoError, ret |-> <<>>]

Init ==
    /\ input_tonic \in TonicTokens
    /\ scales = <<>>
    /\ heap = KEY_SIGNATURES_contents
    /\ out = NoOutcome

\* s = Scale(scale_name): the object is bound only when __init__ returns.
Construct(tail) ==
    LET scale_name == input_tonic \o tail
        r == Scale__init__(scale_name)
    IN  /\ Len(scales) < MaxScales
        /\ scales' = IF r.raised = NoError THEN Append(scales, r.self) ELSE scales
        /\ out' = [op |-> "Scale", self |-> Len(scales) + 1, arg |-> scale_name,
                   raised |-> r.raised, ret |-> r.self]
        /\ UNCHANGED <<input_tonic, heap>>

\* The last reference to scales[i] goes away.
Release(i) ==
    /\ i \in 1..Len(scales)
    /\ scales' = SubSeq(scales, 1, i - 1) \o SubSeq(scales, i + 1, Len(scales))
    /\ out' = [op |-> "del", self |-> i, arg |-> <<>>, raised |-> NoError, ret |-> <<>>]
    /\ UNCHANGED <<input_tonic, heap>>

\* scales[i][degree]
GetItem(i, degree) ==
    /\ i \in 1..Len(scales)
    /\ LET r == Scale__getitem__(scales[i], degree)
       IN  out' = [op |-> "__getitem__", self |-> i, arg |-> degree,
                   raised |-> r.raised, ret |-> r.value]
    /\ UNCHANGED <<input_tonic, scales, heap>>

\* note in scales[i]
ContainsNote(i, note) ==
    /\ i \in 1..Len(scales)
    /\ LET r == Scale__contains__(scales[i], note)
       IN  out' = [op |-> "__contains__", self |-> i, arg |-> note,
                   raised |-> r.raised, ret |-> r.value]
    /\ UNCHANGED <<input_tonic, scales, heap>>

\* scales[i].ascend()
Ascend(i) ==
    /\ i \in 1..Len(scales)
    /\ LET r == Scale_ascend(scales[i])
       IN  out' = [op |-> "ascend", self |-> i, arg |-> <<>>,
                   raised |-> r.raised, ret |-> r.value]
    /\ UNCHANGED <<input_tonic, scales, heap>>

\* scales[i].key_signature: the caller is handed the list object itself.
ReadKeySignature(i) ==
    /\ i \in 1..Len(scales)
    /\ out' = [op |-> "key_signature", self |-> i, arg |-> <<>>,
               raised |-> NoError, ret |-> scales[i]["key_signature"]]
    /\ UNCHANGED <<input_tonic, scales, heap>>

\* scales[i].key_signature.append(x): a caller changes the list it was handed.
ClientAppend(i, x) ==
    /\ i \in 1..Len(scales)
    /\ LET ref == scales[i]["key_signature"]
       IN  /\ Len(heap[ref]) < Len(KEY_SIGNATURES_contents[ref]) + MaxAppend
           /\ heap' = [heap EXCEPT ![ref] = Append(@, x)]
    /\ out' = [op |-> "key_signature.append", self |-> i, arg |-> x,
               raised |-> NoError, ret |-> <<>>]
    /\ UNCHANGED <<input_tonic, scales>>

Next ==
    \/ \E tail \in NameTails : Construct(tail)
    \/ \E i \in 1..MaxScales : Release(i)
    \/ \E i \in 1..MaxScales, degree \in DegreeArguments : GetItem(i, degree)
    \/ \E i \in 1..MaxScales, note \in NoteArguments : ContainsNote(i, note)
    \/ \E i \in 1..MaxScales : Ascend(i)
    \/ \E i \in 1..MaxScales : ReadKeySignature(i)

\* The library's own operations.
Spec == Init /\ [][Next]_vars

NextClient ==
    \/ Next
    \/ \E i \in 1..MaxScales, x \in AppendArguments : ClientAppend(i, x)

\* The library's operations and callers that write to the lists they are handed.
SpecClient == Init /\ [][NextClient]_vars

----------------------------------------------------------------------------
(* Vocabulary of the properties *)

MAJOR == Lit(<<"MAJOR">>)
NATURAL_MINOR == Lit(<<"NATURAL", "MINOR">>)
HARMONIC_MINOR == Lit(<<"HARMONIC", "MINOR">>)
MELODIC_MINOR == Lit(<<"MELODIC", "MINOR">>)

MinorQualities == {NATURAL_MINOR, HARMONIC_MINOR, MELODIC_MINOR}
SupportedQualities == {MAJOR} \cup MinorQualities
AllAttributes == {"_tonic", "_quality", "_notes", "key_signature"}

Elements(xs) == {xs[i] : i \in 1..Len(xs)}
LegalMajor == Elements(VALID_SCALE_NAMES.MAJOR)
LegalMinor == Elements(VALID_SCALE_NAMES.MINOR)
LegalFor(quality) == IF Contains(Chars["MINOR"], quality) THEN LegalMinor ELSE LegalMajor

\* The last operation was Scale(input_tonic + " " + quality).
Constructed(quality) ==
    out.op = "Scale" /\ out.arg = input_tonic \o <<" ">> \o quality

InputQualities == {Tail(tail) : tail \in NameTails \ {<<>>}}

IsScale(s, tonic, quality) == s["_tonic"] = tonic /\ s["_quality"] = quality

Alive == {scales[i] : i \in 1..Len(scales)}

KeySignatureOf(s) == heap[s["key_signature"]]

----------------------------------------------------------------------------
(* C1 *)

C1_TonicDecides ==
    \A quality \in InputQualities : Constructed(quality) =>
        /\ out.raised = "InvalidTonicError" <=> input_tonic \notin LegalFor(quality)
        /\ out.raised = "InvalidTonicError" => out.ret = NoAttributes
        /\ (input_tonic \in LegalFor(quality) /\ quality \in SupportedQualities) =>
               /\ out.raised = NoError
               /\ Len(scales) = out.self /\ scales[out.self] = out.ret

----------------------------------------------------------------------------
(* C2 *)

\* C2 as stated: the key signature of a constructed Scale is empty if and only
\* if the scale is C MAJOR or A NATURAL MINOR.
C2_Original ==
    \A s \in Alive :
        KeySignatureOf(s) = <<>> <=>
            \/ IsScale(s, Chars["C"], MAJOR)
            \/ IsScale(s, Chars["A"], NATURAL_MINOR)

\* C2 amended: the key signature of a constructed Scale is empty if and only
\* if the scale is C MAJOR or a scale on A of any of the three minor qualities.
C2_EmptyKeySignature ==
    \A s \in Alive :
        KeySignatureOf(s) = <<>> <=>
            \/ IsScale(s, Chars["C"], MAJOR)
            \/ \E quality \in MinorQualities : IsScale(s, Chars["A"], quality)

C2_Witness ==
    /\ Len(scales) = 2
    /\ IsScale(scales[1], Chars["A"], HARMONIC_MINOR) /\ KeySignatureOf(scales[1]) = <<>>
    /\ IsScale(scales[2], Chars["A"], MAJOR) /\ KeySignatureOf(scales[2]) # <<>>

----------------------------------------------------------------------------
(* C3 *)

\* C3 as stated: a construction either sets all four attributes or fails
\* before any attribute of the Scale has been set.
C3_Original ==
    out.op = "Scale" =>
        \/ out.raised = NoError /\ DOMAIN out.ret = AllAttributes
        \/ out.raised # NoError /\ out.ret = NoAttributes

\* C3 amended: a construction either sets all four attributes, with 7 notes of
\* which the first is the tonic, and yields the object; or it fails and yields
\* no object.  A failure of the parse or of the tonic check comes before any
\* attribute is set; a failure of a table lookup (KeyError: a legal tonic with
\* a quality the interval table does not have) comes when _tonic and _quality,
\* and nothing else, are set.
C3_AllOrNothing ==
    out.op = "Scale" =>
        \/ /\ out.raised = NoError
           /\ DOMAIN out.ret = AllAttributes
           /\ Len(out.ret["_notes"]) = 7
           /\ out.ret["_notes"][1].qualified_name = out.ret["_tonic"]
           /\ Len(scales) = out.self /\ scales[out.self] = out.ret
        \/ /\ out.raised \in {"IndexError", "InvalidTonicError"}
           /\ out.ret = NoAttributes
           /\ Len(scales) < out.self
        \/ /\ out.raised = "KeyError"
           /\ DOMAIN out.ret = {"_tonic", "_quality"}
           /\ out.ret["_quality"] \notin SupportedQualities
           /\ Len(scales) < out.self

C3_Witness ==
    /\ out.op = "Scale" /\ out.arg = Lit(<<"C", "LYDIAN">>)
    /\ out.raised = "KeyError"
    /\ DOMAIN out.ret = {"_tonic", "_quality"}
    /\ Len(scales) = 1

----------------------------------------------------------------------------
(* C4 *)

SharpLetters == <<"F", "C", "G", "D", "A", "E", "B">>
FlatLetters == <<"B", "E", "A", "D", "G", "C", "F">>

\* The key signature with n sharps (n > 0) or -n flats (n < 0).
Expansion(n) ==
    IF n >= 0 THEN [i \in 1..n |-> <<SharpLetters[i], "#">>]
    ELSE [i \in 1..(-n) |-> <<FlatLetters[i], "b">>]

ModeClass(quality) == IF Contains(Chars["MINOR"], quality) THEN Chars["MINOR"] ELSE Chars["MAJOR"]

QualifiedTonic(s) == s["_tonic"] \o <<" ">> \o ModeClass(s["_quality"])

Abs(n) == IF n < 0 THEN -n ELSE n

\* C4: the key signature of a constructed Scale is the expansion of the number
\* n in -7..7 the registry gives its qualified tonic: the first n sharps in the
\* order F C G D A E B, or the first -n flats in the order B E A D G C F; it
\* has |n| entries and never mixes sharps and flats.
C4_KeySignatureExpansion ==
    \A s \in Alive :
        /\ QualifiedTonic(s) \in DOMAIN KEY_SIGNATURE_NUMBERS
        /\ LET n == KEY_SIGNATURE_NUMBERS[QualifiedTonic(s)]
               ks == KeySignatureOf(s)
           IN  /\ n \in -7..7
               /\ ks = Expansion(n)
               /\ Len(ks) = Abs(n)
               /\ \/ \A i \in 1..Len(ks) : ks[i][2] = "#"
                  \/ \A i \in 1..Len(ks) : ks[i][2] = "b"
        /\ IsScale(s, Chars["G"], MAJOR) => KeySignatureOf(s) = <<Chars["F#"]>>
        /\ IsScale(s, Chars["F"], MAJOR) => KeySignatureOf(s) = <<Chars["Bb"]>>
        /\ IsScale(s, Chars["C#"], MAJOR) =>
               KeySignatureOf(s) = <<Chars["F#"], Chars["C#"], Chars["G#"], Chars["D#"],
                                     Chars["A#"], Chars["E#"], Chars["B#"]>>

C4_Witness ==
    /\ Len(scales) = 2
    /\ IsScale(scales[1], Chars["C#"], MAJOR) /\ Len(KeySignatureOf(scales[1])) = 7
    /\ IsScale(scales[2], Chars["C#"], NATURAL_MINOR) /\ Len(KeySignatureOf(scales[2])) = 4

----------------------------------------------------------------------------
(* C5 *)

\* C5: scales of minor qualities on the same tonic have the same key
\* signature, and the harmonic and the melodic minor scale on the same tonic
\* have different notes.
C5_MinorVariantsShareKeySignature ==
    \A s1 \in Alive, s2 \in Alive :
        (/\ s1["_tonic"] = s2["_tonic"]
         /\ s1["_quality"] \in MinorQualities
         /\ s2["_quality"] \in MinorQualities) =>
            /\ KeySignatureOf(s1) = KeySignatureOf(s2)
            /\ (s1["_quality"] = HARMONIC_MINOR /\ s2["_quality"] = MELODIC_MINOR) =>
                   /\ s1["_notes"] # s2["_notes"]
                   /\ Scale_ascend(s1) # Scale_ascend(s2)

C5_Witness ==
    /\ Len(scales) = 2
    /\ IsScale(scales[1], Chars["F#"], HARMONIC_MINOR)
    /\ IsScale(scales[2], Chars["F#"], MELODIC_MINOR)
    /\ KeySignatureOf(scales[1]) = KeySignatureOf(scales[2])
    /\ Len(KeySignatureOf(scales[1])) = 3

----------------------------------------------------------------------------
(* C6 *)

DegreeOrder ==
    <<"TONIC", "SUPERTONIC", "MEDIANT", "SUBDOMINANT", "DOMINANT", "SUBMEDIANT",
      "LEADING TONE">>

UnsupportedQualities == InputQualities \ SupportedQualities

\* C6: a degree lookup on a constructed Scale returns notes[index] for the
\* seven degree names, indexed 0..6 in their order, and fails with
\* InvalidDegreeError for every other name; on an object of a quality that is
\* neither MAJOR nor contains MINOR it fails with InvalidDegreeError for every
\* name.  It ends in no other error.
C6_DegreeLookup ==
    /\ out.op = "__getitem__" =>
           LET s == scales[out.self]
           IN  /\ out.raised \in {NoError, "InvalidDegreeError"}
               /\ out.raised = NoError <=> out.arg \in Elements(DegreeOrder)
               /\ \A index \in 0..6 :
                      out.arg = DegreeOrder[index + 1] => out.ret = s["_notes"][index + 1]
               /\ (IsScale(s, Chars["D"], MAJOR) /\ out.arg = "TONIC") =>
                      out.ret = Note(Chars["D"])
               /\ (IsScale(s, Chars["D"], MAJOR) /\ out.arg = "DOMINANT") =>
                      out.ret = Note(Chars["A"])
    /\ \A s \in Alive, quality \in UnsupportedQualities, degree \in DegreeArguments :
           LET other == [s EXCEPT !["_quality"] = quality]
           IN  Scale__getitem__(other, degree).raised =
                   IF Contains(Chars["MINOR"], quality)
                   THEN Scale__getitem__(s, degree).raised
                   ELSE "InvalidDegreeError"

C6_Witness ==
    /\ out.op = "__getitem__" /\ out.arg = "DOMINANT" /\ out.raised = NoError
    /\ IsScale(scales[out.self], Chars["D"], MAJOR) /\ out.ret = Note(Chars["A"])

----------------------------------------------------------------------------
(* C7 *)

ReadOps == {"ascend", "__getitem__", "__contains__", "key_signature"}

\* C7: ascend, a degree lookup (also a failing one), a containment test and a
\* read of key_signature leave every Scale and the registry lists as they
\* were; ascend returns the 7 names of the notes, tonic first, and the same
\* again when it is called again.
C7_ReadsChangeNothing ==
    [][out'.op \in ReadOps =>
          /\ scales' = scales
          /\ heap' = heap /\ heap' = KEY_SIGNATURES_contents
          /\ out'.op = "ascend" =>
                 /\ out'.raised = NoError
                 /\ Len(out'.ret) = 7
                 /\ out'.ret[1] = scales[out'.self]["_tonic"]
                 /\ \A i \in 1..7 :
                        out'.ret[i] = scales[out'.self]["_notes"][i].qualified_name
          /\ (out.op = "ascend" /\ out'.op = "ascend" /\ out'.self = out.self) =>
                 out'.ret = out.ret
          /\ (out.op = "__getitem__" /\ out.raised = "InvalidDegreeError"
                  /\ out'.op = "ascend") =>
                 out'.ret = Scale_ascend(scales[out'.self]).value]_vars

C7_Witness ==
    /\ out.op = "ascend" /\ Len(out.ret) = 7
    /\ Len(scales) = 2 /\ out.self = 2
    /\ out.ret[1] = Chars["Eb"] /\ out.ret[7] = Chars["D"]

----------------------------------------------------------------------------
(* C8 *)

RegistryRefs == {KEY_SIGNATURES[n] : n \in DOMAIN KEY_SIGNATURES}

\* C8: no list is shared.  Whatever is done through the key_signature of one
\* Scale, every list of the registry keeps the contents it was created with,
\* and so does the key_signature of every other Scale, alive or built later.
C8_NoSharedMutableState ==
    /\ \A ref \in RegistryRefs : heap[ref] = KEY_SIGNATURES_contents[ref]
    /\ \A i \in 1..Len(scales) :
           (out.op = "key_signature.append" /\ out.self # i) =>
               KeySignatureOf(scales[i]) =
                   Expansion(KEY_SIGNATURE_NUMBERS[QualifiedTonic(scales[i])])

----------------------------------------------------------------------------
(* C9 *)

QualifiedNames(tonics, mode) == {tonic \o <<" ">> \o Chars[mode] : tonic \in tonics}

\* C9: once the tonic has passed validate_tonic, neither lookup of
\* fetch_key_signature misses: the qualified tonic is a key of
\* KEY_SIGNATURE_NUMBERS and its number is a key of KEY_SIGNATURES.  The legal
\* tonic lists and KEY_SIGNATURE_NUMBERS cover the same 15 major and 15 minor
\* tonics.
C9_LookupNeverMisses ==
    /\ \A quality \in InputQualities :
           (Constructed(quality) /\ out.raised \notin {"IndexError", "InvalidTonicError"}) =>
               LET qualified_tonic == input_tonic \o <<" ">> \o ModeClass(quality)
               IN  /\ qualified_tonic \in DOMAIN KEY_SIGNATURE_NUMBERS
                   /\ KEY_SIGNATURE_NUMBERS[qualified_tonic] \in DOMAIN KEY_SIGNATURES
                   /\ fetch_key_signature(input_tonic, quality).raised = NoError
                   /\ "_notes" \in DOMAIN out.ret => out.raised = NoError
    /\ Cardinality(LegalMajor) = 15 /\ Cardinality(LegalMinor) = 15
    /\ DOMAIN KEY_SIGNATURE_NUMBERS =
           QualifiedNames(LegalMajor, "MAJOR") \cup QualifiedNames(LegalMinor, "MINOR")

C9_Witness ==
    /\ Constructed(Lit(<<"MINOR">>)) /\ input_tonic = Chars["G#"]
    /\ out.raised = "KeyError"
    /\ fetch_key_signature(out.ret["_tonic"], out.ret["_quality"]) = Ok(KeySignatureRef(5))

----------------------------------------------------------------------------
(* C10 *)

Fetched(tonic, quality) == heap[fetch_key_signature(tonic, quality).value]

\* C10: within the major tonics, and within the minor tonics, the signature
\* numbers are a bijection onto -7..7; so two different major tonics, or two
\* different minor tonics, never have the same key signature, and the key
\* signature of a major tonic is that of exactly one minor tonic.  The tables
\* are compared as a whole before the first construction, and against every
\* Scale that is alive afterwards.
C10_SignatureNumbersBijective ==
    /\ scales = <<>> =>
           /\ \A n \in -7..7 :
                  /\ Cardinality({t \in LegalMajor :
                         KEY_SIGNATURE_NUMBERS[t \o <<" ">> \o Chars["MAJOR"]] = n}) = 1
                  /\ Cardinality({t \in LegalMinor :
                         KEY_SIGNATURE_NUMBERS[t \o <<" ">> \o Chars["MINOR"]] = n}) = 1
           /\ \A t1 \in LegalMajor, t2 \in LegalMajor :
                  t1 # t2 => Fetched(t1, MAJOR) # Fetched(t2, MAJOR)
           /\ \A t1 \in LegalMinor, t2 \in LegalMinor :
                  t1 # t2 => \A q1 \in MinorQualities, q2 \in MinorQualities :
                                 Fetched(t1, q1) # Fetched(t2, q2)
           /\ \A t \in LegalMajor :
                  Cardinality({m \in LegalMinor :
                      Fetched(m, NATURAL_MINOR) = Fetched(t, MAJOR)}) = 1
    /\ \A s \in Alive :
           /\ s["_quality"] = MAJOR =>
                  /\ \A t \in LegalMajor \ {s["_tonic"]} :
                         Fetched(t, MAJOR) # KeySignatureOf(s)
                  /\ Cardinality({m \in LegalMinor :
                         Fetched(m, NATURAL_MINOR) = KeySignatureOf(s)}) = 1
           /\ s["_quality"] \in MinorQualities =>
                  \A t \in LegalMinor \ {s["_tonic"]} :
                      Fetched(t, NATURAL_MINOR) # KeySignatureOf(s)

C10_Witness ==
    /\ Len(scales) = 2
    /\ IsScale(scales[1], Chars["G"], MAJOR)
    /\ KeySignatureOf(scales[1]) = Fetched(Chars["E"], NATURAL_MINOR)
    /\ IsScale(scales[2], Chars["G"], MELODIC_MINOR)
    /\ KeySignatureOf(scales[2]) = Fetched(Chars["Bb"], MAJOR)

============================================================================
